---- MODULE Spec2Model ----
(***************************************************************************)
(* Model of servo's gfx::font (src/components/gfx/font.rs): a Font with    *)
(* its lazily built shaper and azure font, its shape cache and its glyph   *)
(* advance cache, text measurement and the submission of glyph runs to a   *)
(* draw target; and of servo's layout::table                               *)
(* (src/components/layout/table.rs): a TableFlow's column width vectors    *)
(* through bubble_widths and assign_widths.                                *)
(***************************************************************************)
EXTENDS Integers, Sequences, FiniteSets, TLC

VARIABLES font,     \* the Font struct
          calls,    \* how often each collaborator of the Font was called
          first,    \* the first value each key of a cache was answered with
          last,     \* the most recent operation: name, arguments, result
          rctx,     \* the RenderContext's draw target
          borrow,   \* borrow flag of the RefCell<Font>: 0 or the borrower
          task,     \* create_textrun requests in progress
          group,    \* the FontGroup made by the font context, if any
          table,    \* the TableFlow made by flow construction, if any
          pass      \* how far layout has come on the table, and its locals

vars == <<font, calls, first, last, rctx, borrow, task, group, table, pass>>

----------------------------------------------------------------------------
(* Bounds *)

\* a text is shaped by at most this many shaper invocations
MaxShapes == 2
\* the draw target accepts at most this many fill-glyphs calls
MaxFills == 2
\* the shaper, the azure font and each handle advance are built/queried at
\* most this often
MaxBuilds == 2

----------------------------------------------------------------------------
(* Option<T> *)

None == <<>>
Some(v) == <<v>>
is_some(o) == Len(o) > 0
is_none(o) == Len(o) = 0
get_ref(o) == o[1]

(* Range<CharIndex>: begin and length *)
Range(b, l) == [begin |-> b, length |-> l]
range_end(r) == r.begin + r.length
Max2(a, b) == IF a >= b THEN a ELSE b
Min2(a, b) == IF a <= b THEN a ELSE b
range_intersect(r, s) ==
    LET b == Max2(r.begin, s.begin)
        e == Min2(range_end(r), range_end(s))
    IN  IF e > b THEN Range(b, e - b) ELSE Range(0, 0)
\* every range inside 0..n
RangesWithin(n) == { r \in [begin : 0..n, length : 0..n] : r.begin + r.length <= n }

----------------------------------------------------------------------------
(* The platform: characters, glyphs, the font handle, the shaper *)

Chars == {"a", ".", " "}
GlyphIds == {1, 2, 3}
is_whitespace_char(c) == c = " "

\* FontStyle
UsedStyle == [pt_size |-> 12, weight |-> "Weight400", style |-> "normal",
              families |-> <<"serif">>]

\* FontHandle: what the platform face answers
Handle == [face_identifier |-> "face-0",
           metrics |-> [ascent |-> 11, descent |-> 3, em_size |-> 12,
                        max_advance |-> 9],
           glyph_index   |-> [c \in Chars \cup {"z"} |->
                                CASE c = "a" -> Some(1)
                                  [] c = "." -> Some(2)
                                  [] c = " " -> Some(3)
                                  [] OTHER   -> None],
           glyph_h_advance |-> [g \in GlyphIds |->
                                CASE g = 1 -> Some(7)
                                  [] g = 2 -> None
                                  [] OTHER -> Some(0)]]

handle_glyph_index(handle, codepoint) == handle.glyph_index[codepoint]
handle_glyph_h_advance(handle, glyph) == handle.glyph_h_advance[glyph]
handle_get_metrics(handle) == handle.metrics
handle_face_identifier(handle) == handle.face_identifier

\* a shaped glyph: id, advance (Au, signed), optional offset (Au point)
ShapedGlyph(c) ==
    CASE c = "a" -> [id |-> 1, advance |-> 50,  offset |-> None]
      [] c = "." -> [id |-> 2, advance |-> -20, offset |-> Some([x |-> 15, y |-> -45])]
      [] OTHER   -> [id |-> 3, advance |-> 100, offset |-> Some([x |-> 0, y |-> 30])]
MissingGlyph == [id |-> 0, advance |-> 0, offset |-> None]

\* GlyphStore::new(length, is_whitespace)
GlyphStore_new(length, is_whitespace) ==
    [entries |-> [i \in 1..length |-> MissingGlyph], is_whitespace |-> is_whitespace]

\* Shaper::shape_text(txt, &mut glyphs): one entry per character of txt
Shaper_shape_text(txt, glyphs) ==
    [glyphs EXCEPT !.entries =
        [i \in 1..Len(glyphs.entries) |->
            IF i <= Len(txt) THEN ShapedGlyph(txt[i]) ELSE glyphs.entries[i]]]

\* GlyphStore::iter_glyphs_for_char_range: the glyphs of the characters of rang
iter_glyphs_for_char_range(glyphs, rang) ==
    [i \in 1..rang.length |-> glyphs.entries[rang.begin + i]]

\* Au to device pixels, rounding half away from zero (60 Au per pixel)
AuPerPx == 60
to_nearest_px(a) ==
    IF a >= 0 THEN (2 * a + AuPerPx) \div (2 * AuPerPx)
    ELSE -((2 * (-a) + AuPerPx) \div (2 * AuPerPx))

----------------------------------------------------------------------------
(* Text runs: a text broken into slices at whitespace boundaries, each     *)
(* slice a glyph store with the character range it covers                  *)

RECURSIVE slice_end(_, _)
\* the index of the last character of the slice that starts at index b
slice_end(text, b) ==
    IF b < Len(text) /\ is_whitespace_char(text[b + 1]) = is_whitespace_char(text[b])
    THEN slice_end(text, b + 1) ELSE b

RECURSIVE break_slices(_, _)
break_slices(text, b) ==
    IF b > Len(text) THEN <<>>
    ELSE LET e == slice_end(text, b)
         IN  <<[range |-> Range(b - 1, e - b + 1),
                text  |-> SubSeq(text, b, e),
                is_whitespace |-> is_whitespace_char(text[b])]>>
             \o break_slices(text, e + 1)

\* the run an equivalent Font produces for text
TextRun_of(text) ==
    [text   |-> text,
     glyphs |-> LET sl == break_slices(text, 1)
                IN  [k \in 1..Len(sl) |->
                       [range |-> sl[k].range,
                        glyph_store |-> Shaper_shape_text(sl[k].text,
                                 GlyphStore_new(Len(sl[k].text), sl[k].is_whitespace))]]]

RECURSIVE iter_slices_from(_, _, _)
\* TextRun::iter_slices_for_range: (glyphs, offset, slice_range) of every
\* slice that overlaps range, slice_range relative to the slice
iter_slices_from(run, range, k) ==
    IF k > Len(run.glyphs) THEN <<>>
    ELSE LET sl == run.glyphs[k]
             x  == range_intersect(sl.range, range)
         IN  (IF x.length > 0
              THEN <<[glyphs |-> sl.glyph_store, offset |-> sl.range.begin,
                      slice_range |-> Range(x.begin - sl.range.begin, x.length)]>>
              ELSE <<>>)
             \o iter_slices_from(run, range, k + 1)
iter_slices_for_range(run, range) == iter_slices_from(run, range, 1)

----------------------------------------------------------------------------
(* Inputs *)

ShapeTexts == { <<"a">>, <<" ">>, <<"a", ".">> }
RunTexts == { <<"a", ".", " ">>, <<>> }
Runs == { TextRun_of(t) : t \in RunTexts }
Stores == UNION { { r.glyphs[k].glyph_store : k \in 1..Len(r.glyphs) } : r \in Runs }
BaselineOrigins == { [x |-> 0, y |-> 0], [x |-> 40, y |-> 100] }
Colors == { "black" }
Codepoints == { "a", "z" }
AdvanceGlyphs == { 1, 2 }

----------------------------------------------------------------------------
(* servo_util::cache::HashCache *)

HashCache_new(keys) == [k \in keys |-> None]

\* find_or_create: the cached value of key, or else made, the value the
\* closure makes for key, inserted under key; created tells whether the
\* closure ran
HashCache_find_or_create(entries, key, made) ==
    IF is_some(entries[key])
    THEN [entries |-> entries, val |-> get_ref(entries[key]), created |-> FALSE]
    ELSE [entries |-> [entries EXCEPT ![key] = Some(made)], val |-> made,
          created |-> TRUE]

\* Arc::new: a shared reference, identified by where and when it was made
Arc_new(ptr, data) == [ptr |-> ptr, data |-> data]

----------------------------------------------------------------------------
(* Font *)

FallbackAdvance == 10

\* Font::new_from_buffer (Ok branch) / Font::new_from_adopted_handle
Font_new_from_adopted_handle(handle, style, backend) ==
    [handle     |-> handle,
     azure_font |-> None,
     shaper     |-> None,
     style      |-> style,
     metrics    |-> handle_get_metrics(handle),
     backend    |-> backend,
     shape_cache |-> HashCache_new(ShapeTexts),
     glyph_advance_cache |-> HashCache_new(GlyphIds)]

NoCalls == [Shaper_new |-> 0,
            create_azure_font |-> 0,
            shaper_shape_text |-> [t \in ShapeTexts |-> 0],
            handle_glyph_h_advance |-> [g \in GlyphIds |-> 0]]

\* Shaper::new(font): the n-th shaper built for this font
Shaper_new(C) == [id |-> C.Shaper_new + 1]

make_shaper_rebuild(F, C) ==
    [font  |-> [F EXCEPT !.shaper = Some(Shaper_new(C))],
     calls |-> [C EXCEPT !.Shaper_new = @ + 1]]

make_shaper(F, C) ==
    IF is_some(F.shaper)
    THEN [font |-> F, calls |-> C]
    ELSE [font  |-> [F EXCEPT !.shaper = Some(Shaper_new(C))],
          calls |-> [C EXCEPT !.Shaper_new = @ + 1]]

\* Font::create_azure_font: the n-th ScaledFont built for this font
create_azure_font(F, C) ==
    [id |-> C.create_azure_font + 1, backend |-> F.backend,
     native |-> handle_face_identifier(F.handle), size |-> F.style.pt_size]

get_azure_font_rebuild(F, C) ==
    LET scaled_font == create_azure_font(F, C)
    IN  [font  |-> [F EXCEPT !.azure_font = Some(scaled_font)],
         calls |-> [C EXCEPT !.create_azure_font = @ + 1],
         ret   |-> scaled_font]

get_azure_font(F, C) ==
    IF is_some(F.azure_font)
    THEN [font |-> F, calls |-> C, ret |-> get_ref(F.azure_font)]
    ELSE LET scaled_font == create_azure_font(F, C)
         IN  [font  |-> [F EXCEPT !.azure_font = Some(scaled_font)],
              calls |-> [C EXCEPT !.create_azure_font = @ + 1],
              ret   |-> scaled_font]

\* the glyph store is made without the flag
shape_closure_untagged(C, text, is_whitespace, txt) ==
    Arc_new(<<txt, C.shaper_shape_text[txt] + 1>>,
            Shaper_shape_text(txt, GlyphStore_new(Len(text), FALSE)))

\* the closure shape_text hands to the cache: a fresh glyph store, shaped
shape_closure(C, text, is_whitespace, txt) ==
    Arc_new(<<txt, C.shaper_shape_text[txt] + 1>>,
            Shaper_shape_text(txt, GlyphStore_new(Len(text), is_whitespace)))

\* shapes and inserts on every call
shape_text_uncached(F, C, text, is_whitespace) ==
    LET m == make_shaper(F, C)
        val == shape_closure(m.calls, text, is_whitespace, text)
    IN  [font  |-> [m.font EXCEPT !.shape_cache[text] = Some(val)],
         calls |-> [m.calls EXCEPT !.shaper_shape_text[text] = @ + 1],
         ret   |-> val,
         hit   |-> FALSE]

\* reshapes when the cached store carries the other whitespace flag
shape_text_flag_refresh(F, C, text, is_whitespace) ==
    LET m == make_shaper(F, C)
        e == m.font.shape_cache[text]
    IN  IF is_some(e) /\ get_ref(e).data.is_whitespace = is_whitespace
        THEN [font |-> m.font, calls |-> m.calls, ret |-> get_ref(e), hit |-> TRUE]
        ELSE LET val == shape_closure(m.calls, text, is_whitespace, text)
             IN  [font  |-> [m.font EXCEPT !.shape_cache[text] = Some(val)],
                  calls |-> [m.calls EXCEPT !.shaper_shape_text[text] = @ + 1],
                  ret   |-> val,
                  hit   |-> FALSE]

shape_text(F, C, text, is_whitespace) ==
    LET m == make_shaper(F, C)
        r == HashCache_find_or_create(m.font.shape_cache, text,
                 shape_closure(m.calls, text, is_whitespace, text))
    IN  [font  |-> [m.font EXCEPT !.shape_cache = r.entries],
         calls |-> IF r.created
                   THEN [m.calls EXCEPT !.shaper_shape_text[text] = @ + 1]
                   ELSE m.calls,
         ret   |-> r.val,
         hit   |-> ~r.created]

\* names the face by the first family of the style
get_descriptor_family(F) ==
    [style |-> F.style,
     selector |-> [variant |-> "SelectorPlatformIdentifier",
                   id |-> F.style.families[1]]]

get_descriptor(F) ==
    [style |-> F.style,
     selector |-> [variant |-> "SelectorPlatformIdentifier",
                   id |-> handle_face_identifier(F.handle)]]

glyph_index(F, codepoint) == handle_glyph_index(F.handle, codepoint)

\* answers 0 where the handle reports no advance
glyph_h_advance_zero(F, C, glyph) ==
    LET r == HashCache_find_or_create(F.glyph_advance_cache, glyph,
                 LET adv == handle_glyph_h_advance(F.handle, glyph)
                 IN  IF is_some(adv) THEN get_ref(adv) ELSE 0)
    IN  [font  |-> [F EXCEPT !.glyph_advance_cache = r.entries],
         calls |-> IF r.created
                   THEN [C EXCEPT !.handle_glyph_h_advance[glyph] = @ + 1]
                   ELSE C,
         ret   |-> r.val,
         hit   |-> ~r.created]

glyph_h_advance(F, C, glyph) ==
    LET r == HashCache_find_or_create(F.glyph_advance_cache, glyph,
                 LET adv == handle_glyph_h_advance(F.handle, glyph)
                 IN  IF is_some(adv) THEN get_ref(adv) ELSE FallbackAdvance)
    IN  [font  |-> [F EXCEPT !.glyph_advance_cache = r.entries],
         calls |-> IF r.created
                   THEN [C EXCEPT !.handle_glyph_h_advance[glyph] = @ + 1]
                   ELSE C,
         ret   |-> r.val,
         hit   |-> ~r.created]

----------------------------------------------------------------------------
(* Measurement *)

\* the bounding box hangs below the baseline
RunMetrics_new_below(advance, ascent, descent) ==
    [advance_width |-> advance,
     bounding_box  |-> [origin |-> [x |-> 0, y |-> ascent],
                        size   |-> [width |-> advance, height |-> ascent + descent]],
     ascent  |-> ascent,
     descent |-> descent]

\* RunMetrics::new
RunMetrics_new(advance, ascent, descent) ==
    [advance_width |-> advance,
     bounding_box  |-> [origin |-> [x |-> 0, y |-> -ascent],
                        size   |-> [width |-> advance, height |-> ascent + descent]],
     ascent  |-> ascent,
     descent |-> descent]

RECURSIVE sum_glyph_advances(_, _, _)
\* the inner loop: advance = advance + glyph.advance() over glyphs k..
sum_glyph_advances(glyphs, k, advance) ==
    IF k > Len(glyphs) THEN advance
    ELSE sum_glyph_advances(glyphs, k + 1, advance + glyphs[k].advance)

RECURSIVE sum_slice_advances(_, _, _)
\* the outer loop over the slices k.. of the range
sum_slice_advances(slices, k, advance) ==
    IF k > Len(slices) THEN advance
    ELSE sum_slice_advances(slices, k + 1,
             sum_glyph_advances(
                 iter_glyphs_for_char_range(slices[k].glyphs, slices[k].slice_range),
                 1, advance))

\* a run's advance is never reported negative
measure_text_clamped(F, run, range) ==
    LET advance == sum_slice_advances(iter_slices_for_range(run, range), 1, 0)
    IN  RunMetrics_new(Max2(advance, 0), F.metrics.ascent, F.metrics.descent)

measure_text(F, run, range) ==
    LET advance == sum_slice_advances(iter_slices_for_range(run, range), 1, 0)
    IN  RunMetrics_new(advance, F.metrics.ascent, F.metrics.descent)

measure_text_for_slice(F, glyphs, slice_range) ==
    LET advance == sum_glyph_advances(
                       iter_glyphs_for_char_range(glyphs, slice_range), 1, 0)
    IN  RunMetrics_new(advance, F.metrics.ascent, F.metrics.descent)

----------------------------------------------------------------------------
(* Drawing *)

\* struct__AzDrawOptions of every fill: mAlpha 1.0, fields 0x0200
DrawAlpha == 1
DrawFields == 512

\* AzDrawTargetFillGlyphs: the draw target takes one more fill
AzDrawTargetFillGlyphs(R, fill) == [R EXCEPT !.fill_calls = @ + 1]

RECURSIVE place_glyphs_drift(_, _, _)
\* the running origin takes each glyph's offset along
place_glyphs_drift(glyphs, k, st) ==
    IF k > Len(glyphs) THEN st
    ELSE LET glyph == glyphs[k]
             glyph_offset == IF is_some(glyph.offset) THEN get_ref(glyph.offset)
                             ELSE [x |-> 0, y |-> 0]
             pen == [x |-> st.origin.x + glyph_offset.x, y |-> st.origin.y + glyph_offset.y]
             azglyph == [mIndex |-> glyph.id,
                         mPosition |-> [x |-> to_nearest_px(pen.x),
                                        y |-> to_nearest_px(pen.y)]]
         IN  place_glyphs_drift(glyphs, k + 1,
                 [origin   |-> [x |-> pen.x + glyph.advance, y |-> pen.y],
                  azglyphs |-> Append(st.azglyphs, azglyph)])

RECURSIVE place_glyphs(_, _, _)
\* the inner loop: st is the running origin and the buffer built so far
place_glyphs(glyphs, k, st) ==
    IF k > Len(glyphs) THEN st
    ELSE LET glyph == glyphs[k]
             glyph_advance == glyph.advance
             glyph_offset  == IF is_some(glyph.offset) THEN get_ref(glyph.offset)
                              ELSE [x |-> 0, y |-> 0]
             azglyph == [mIndex |-> glyph.id,
                         mPosition |-> [x |-> to_nearest_px(st.origin.x + glyph_offset.x),
                                        y |-> to_nearest_px(st.origin.y + glyph_offset.y)]]
         IN  place_glyphs(glyphs, k + 1,
                 [origin   |-> [x |-> st.origin.x + glyph_advance, y |-> st.origin.y],
                  azglyphs |-> Append(st.azglyphs, azglyph)])

RECURSIVE place_slices(_, _, _)
\* the outer loop over the slices k.. of the range
place_slices(slices, k, st) ==
    IF k > Len(slices) THEN st
    ELSE place_slices(slices, k + 1,
             place_glyphs(
                 iter_glyphs_for_char_range(slices[k].glyphs, slices[k].slice_range),
                 1, st))

\* the fill-glyphs call for a buffer
fill_glyphs_call(azfontref, azglyphs, pattern) ==
    [font     |-> azfontref,
     glyphbuf |-> [mGlyphs |-> azglyphs, mNumGlyphs |-> Len(azglyphs)],
     pattern  |-> pattern,
     options  |-> [mAlpha |-> DrawAlpha, fields |-> DrawFields]]

\* the result of a draw: the Font, the call counts, the draw target, the
\* fills issued, the buffer and the final running origin
draw_result(a, R, fills, st) ==
    [font |-> a.font, calls |-> a.calls, rctx |-> R, fills |-> fills,
     ret |-> st]

RECURSIVE fill_each(_, _, _, _, _)
\* one fill call per glyph of the buffer, from glyph k on
fill_each(azfontref, azglyphs, pattern, k, acc) ==
    IF k > Len(azglyphs) THEN acc
    ELSE LET fill == fill_glyphs_call(azfontref, <<azglyphs[k]>>, pattern)
         IN  fill_each(azfontref, azglyphs, pattern, k + 1,
                 [rctx  |-> AzDrawTargetFillGlyphs(acc.rctx, fill),
                  fills |-> Append(acc.fills, fill)])

\* submits the buffer even when it is empty
draw_text_into_context_unguarded(F, C, R, run, range, baseline_origin, color) ==
    LET a  == get_azure_font(F, C)
        st == place_slices(iter_slices_for_range(run, range), 1,
                           [origin |-> baseline_origin, azglyphs |-> <<>>])
        fill == fill_glyphs_call(a.ret, st.azglyphs, color)
    IN  draw_result(a, AzDrawTargetFillGlyphs(R, fill), <<fill>>, st)

\* submits the buffer glyph by glyph
draw_text_into_context_unbatched(F, C, R, run, range, baseline_origin, color) ==
    LET a  == get_azure_font(F, C)
        st == place_slices(iter_slices_for_range(run, range), 1,
                           [origin |-> baseline_origin, azglyphs |-> <<>>])
        f  == fill_each(a.ret, st.azglyphs, color, 1, [rctx |-> R, fills |-> <<>>])
    IN  draw_result(a, f.rctx, f.fills, st)

\* builds the shaper along with the azure font
draw_text_into_context_shaper(F, C, R, run, range, baseline_origin, color) ==
    LET m  == make_shaper(F, C)
        a  == get_azure_font(m.font, m.calls)
        st == place_slices(iter_slices_for_range(run, range), 1,
                           [origin |-> baseline_origin, azglyphs |-> <<>>])
        fill == fill_glyphs_call(a.ret, st.azglyphs, color)
    IN  IF Len(st.azglyphs) = 0
        THEN draw_result(a, R, <<>>, st)
        ELSE draw_result(a, AzDrawTargetFillGlyphs(R, fill), <<fill>>, st)

draw_text_into_context(F, C, R, run, range, baseline_origin, color) ==
    LET a  == get_azure_font(F, C)
        azfontref == a.ret
        azure_pattern == color
        st == place_slices(iter_slices_for_range(run, range), 1,
                           [origin |-> baseline_origin, azglyphs |-> <<>>])
        azglyph_buf_len == Len(st.azglyphs)
        fill == fill_glyphs_call(azfontref, st.azglyphs, azure_pattern)
    IN  IF azglyph_buf_len = 0
        THEN draw_result(a, R, <<>>, st)
        ELSE draw_result(a, AzDrawTargetFillGlyphs(R, fill), <<fill>>, st)

----------------------------------------------------------------------------
(* The state after construction *)

Idle == [pc |-> "idle", text |-> <<>>, is_whitespace |-> FALSE, glyphs |-> None,
         ret |-> None]
Requests == {1, 2}

\* no table yet: bubble_widths' locals at their first values, nothing laid out
NoPass == [pc |-> "none", seen |-> <<>>, min_width |-> 0, pref_width |-> 0,
           did_first_row |-> FALSE, before |-> <<>>, content_width |-> 0,
           propagated |-> None]

Init ==
    /\ font = Font_new_from_adopted_handle(Handle, UsedStyle, "SkiaBackend")
    /\ calls = NoCalls
    /\ first = [store   |-> [t \in ShapeTexts |-> None],
                flag    |-> [t \in ShapeTexts |-> None],
                advance |-> [g \in GlyphIds |-> None]]
    /\ last = [op |-> "new", key |-> <<>>, ret |-> <<>>, hit |-> FALSE,
               fills |-> <<>>]
    /\ rctx = [fill_calls |-> 0]
    /\ borrow = 0
    /\ task = [r \in Requests |-> Idle]
    /\ group = None
    /\ table = None
    /\ pass = NoPass

\* the first answer per key, once given, is kept
note_first(f, key, val) == IF is_none(f[key]) THEN [f EXCEPT ![key] = Some(val)] ELSE f

----------------------------------------------------------------------------
(* The operations of a Font, each called by the Font's one owner *)

ShapeText(text, is_whitespace) ==
    /\ calls.shaper_shape_text[text] < MaxShapes
    /\ calls.Shaper_new < MaxBuilds
    /\ LET r == shape_text(font, calls, text, is_whitespace)
       IN  /\ font' = r.font
           /\ calls' = r.calls
           /\ first' = [first EXCEPT !.store = note_first(@, text, r.ret),
                                     !.flag  = note_first(@, text, is_whitespace)]
           /\ last' = [op |-> "shape_text",
                       key |-> [text |-> text, is_whitespace |-> is_whitespace],
                       ret |-> r.ret, hit |-> r.hit, fills |-> <<>>]
    /\ UNCHANGED <<rctx, borrow, task, group, table, pass>>

GlyphHAdvance(glyph) ==
    /\ calls.handle_glyph_h_advance[glyph] < MaxBuilds
    /\ LET r == glyph_h_advance(font, calls, glyph)
       IN  /\ font' = r.font
           /\ calls' = r.calls
           /\ first' = [first EXCEPT !.advance = note_first(@, glyph, r.ret)]
           /\ last' = [op |-> "glyph_h_advance", key |-> [glyph |-> glyph],
                       ret |-> r.ret, hit |-> r.hit, fills |-> <<>>]
    /\ UNCHANGED <<rctx, borrow, task, group, table, pass>>

MeasureText(run, range) ==
    /\ last' = [op |-> "measure_text", key |-> [run |-> run, range |-> range],
                ret |-> measure_text(font, run, range), hit |-> FALSE,
                fills |-> <<>>]
    /\ UNCHANGED <<font, calls, first, rctx, borrow, task, group, table, pass>>

MeasureTextForSlice(glyphs, slice_range) ==
    /\ last' = [op |-> "measure_text_for_slice",
                key |-> [glyphs |-> glyphs, range |-> slice_range],
                ret |-> measure_text_for_slice(font, glyphs, slice_range),
                hit |-> FALSE, fills |-> <<>>]
    /\ UNCHANGED <<font, calls, first, rctx, borrow, task, group, table, pass>>

DrawTextIntoContext(run, range, baseline_origin, color) ==
    /\ rctx.fill_calls < MaxFills
    /\ calls.create_azure_font < MaxBuilds
    /\ LET r == draw_text_into_context(font, calls, rctx, run, range,
                                       baseline_origin, color)
       IN  /\ font' = r.font
           /\ calls' = r.calls
           /\ rctx' = r.rctx
           /\ last' = [op |-> "draw_text_into_context",
                       key |-> [run |-> run, range |-> range,
                                baseline_origin |-> baseline_origin],
                       ret |-> r.ret, hit |-> is_some(font.azure_font),
                       fills |-> r.fills]
    /\ UNCHANGED <<first, borrow, task, group, table, pass>>

\* builds the shaper before it answers
GetDescriptor_shaper ==
    /\ calls.Shaper_new < MaxBuilds
    /\ LET m == make_shaper(font, calls)
       IN  font' = m.font /\ calls' = m.calls
    /\ last' = [op |-> "get_descriptor", key |-> <<>>, ret |-> get_descriptor(font),
                hit |-> FALSE, fills |-> <<>>]
    /\ UNCHANGED <<first, rctx, borrow, task, group, table, pass>>

GetDescriptor ==
    /\ last' = [op |-> "get_descriptor", key |-> <<>>, ret |-> get_descriptor(font),
                hit |-> FALSE, fills |-> <<>>]
    /\ UNCHANGED <<font, calls, first, rctx, borrow, task, group, table, pass>>

GlyphIndex(codepoint) ==
    /\ last' = [op |-> "glyph_index", key |-> [codepoint |-> codepoint],
                ret |-> glyph_index(font, codepoint), hit |-> FALSE,
                fills |-> <<>>]
    /\ UNCHANGED <<font, calls, first, rctx, borrow, task, group, table, pass>>

Next ==
    \/ \E text \in ShapeTexts, is_whitespace \in BOOLEAN : ShapeText(text, is_whitespace)
    \/ \E glyph \in AdvanceGlyphs : GlyphHAdvance(glyph)
    \/ \E run \in Runs : \E range \in RangesWithin(Len(run.text)) :
          MeasureText(run, range)
    \/ \E glyphs \in Stores : \E range \in RangesWithin(Len(glyphs.entries)) :
          MeasureTextForSlice(glyphs, range)
    \/ \E run \in Runs : \E range \in RangesWithin(Len(run.text)) :
          \E baseline_origin \in BaselineOrigins, color \in Colors :
             DrawTextIntoContext(run, range, baseline_origin, color)
    \/ GetDescriptor
    \/ \E codepoint \in Codepoints : GlyphIndex(codepoint)

Spec == Init /\ [][Next]_vars

----------------------------------------------------------------------------
(* FontGroup::create_textrun, step by step: requests that reach the same   *)
(* Font through its Rc<RefCell<Font>> while another request is under way   *)

\* a borrow that does not look at the borrow flag
borrow_mut_unchecked(flag, r) == [ok |-> TRUE, flag |-> r]

\* self.fonts.get(0).borrow_mut(): granted only while nobody holds the Font
borrow_mut(flag, r) ==
    IF flag = 0 THEN [ok |-> TRUE, flag |-> r] ELSE [ok |-> FALSE, flag |-> flag]

Failed == \E r \in Requests : task[r].pc = "failed"
InShapeText(r) == task[r].pc \in {"make_shaper", "find", "shape", "insert", "release"}

\* create_textrun is called: the fonts are there, the first one is borrowed;
\* a borrow that is refused fails the task
CreateTextrun(r, text) ==
    /\ ~Failed
    /\ task[r].pc = "idle"
    /\ LET b == borrow_mut(borrow, r)
       IN  /\ borrow' = b.flag
           /\ task' = [task EXCEPT ![r] =
                  [pc |-> IF b.ok THEN "make_shaper" ELSE "failed",
                   text |-> text, is_whitespace |-> is_whitespace_char(text[1]),
                   glyphs |-> None, ret |-> None]]
    /\ UNCHANGED <<font, calls, first, last, rctx, group, table, pass>>

\* shape_text: self.make_shaper()
StepMakeShaper(r) ==
    /\ ~Failed
    /\ task[r].pc = "make_shaper"
    /\ calls.Shaper_new < MaxBuilds
    /\ LET m == make_shaper(font, calls)
       IN  font' = m.font /\ calls' = m.calls
    /\ task' = [task EXCEPT ![r].pc = "find"]
    /\ UNCHANGED <<first, last, rctx, borrow, group, table, pass>>

\* find_or_create: the lookup
StepFind(r) ==
    /\ ~Failed
    /\ task[r].pc = "find"
    /\ LET e == font.shape_cache[task[r].text]
       IN  IF is_some(e)
           THEN task' = [task EXCEPT ![r].pc = "release", ![r].ret = e]
           ELSE task' = [task EXCEPT ![r].pc = "shape"]
    /\ UNCHANGED <<font, calls, first, last, rctx, borrow, group, table, pass>>

\* find_or_create: the closure makes and shapes a glyph store
StepShape(r) ==
    /\ ~Failed
    /\ task[r].pc = "shape"
    /\ calls.shaper_shape_text[task[r].text] < MaxShapes
    /\ task' = [task EXCEPT ![r].pc = "insert",
                   ![r].glyphs = Some(shape_closure(calls, task[r].text,
                                     task[r].is_whitespace, task[r].text))]
    /\ calls' = [calls EXCEPT !.shaper_shape_text[task[r].text] = @ + 1]
    /\ UNCHANGED <<font, first, last, rctx, borrow, group, table, pass>>

\* find_or_create: the new glyph store goes into the cache and is returned
StepInsert(r) ==
    /\ ~Failed
    /\ task[r].pc = "insert"
    /\ font' = [font EXCEPT !.shape_cache[task[r].text] = task[r].glyphs]
    /\ task' = [task EXCEPT ![r].pc = "release", ![r].ret = task[r].glyphs,
                            ![r].glyphs = None]
    /\ UNCHANGED <<calls, first, last, rctx, borrow, group, table, pass>>

\* create_textrun returns: the borrow ends
StepRelease(r) ==
    /\ ~Failed
    /\ task[r].pc = "release"
    /\ borrow' = 0
    /\ task' = [task EXCEPT ![r].pc = "idle"]
    /\ first' = [first EXCEPT !.store = note_first(@, task[r].text, get_ref(task[r].ret)),
                              !.flag  = note_first(@, task[r].text, task[r].is_whitespace)]
    /\ UNCHANGED <<font, calls, last, rctx, group, table, pass>>

NextConc ==
    \/ \E r \in Requests, text \in ShapeTexts : CreateTextrun(r, text)
    \/ \E r \in Requests : StepMakeShaper(r)
    \/ \E r \in Requests : StepFind(r)
    \/ \E r \in Requests : StepShape(r)
    \/ \E r \in Requests : StepInsert(r)
    \/ \E r \in Requests : StepRelease(r)

SpecConc == Init /\ [][NextConc]_vars

----------------------------------------------------------------------------
(* The font context: Fonts built from buffers, a FontGroup, text runs      *)

\* a second face: other metrics, no glyph for "."
HandleB == [face_identifier |-> "face-1",
            metrics |-> [ascent |-> 9, descent |-> 2, em_size |-> 10,
                         max_advance |-> 8],
            glyph_index   |-> [c \in Chars \cup {"z"} |->
                                 CASE c = "a" -> Some(4)
                                   [] c = " " -> Some(5)
                                   [] c = "z" -> Some(6)
                                   [] OTHER   -> None],
            glyph_h_advance |-> [g \in GlyphIds |-> Some(6)]]
Faces == { Handle, HandleB }

BoldStyle == [pt_size |-> 16, weight |-> "Weight700", style |-> "italic",
              families |-> <<"sans-serif", "serif">>]
Styles == { UsedStyle, BoldStyle }
Backends == { "SkiaBackend" }

\* font data: the bytes of each face, and bytes that are no font
Buffers == { "face-0", "face-1", "garbage" }

\* Result<T, ()>
Ok(v) == [tag |-> "Ok", val |-> Some(v)]
Err == [tag |-> "Err", val |-> None]
Abort == [tag |-> "abort", val |-> None]

\* FontHandleMethods::new_from_buffer: the face the bytes hold, or Err
handle_new_from_buffer(buf, style) ==
    IF \E h \in Faces : h.face_identifier = buf
    THEN Ok(CHOOSE h \in Faces : h.face_identifier = buf)
    ELSE Err

\* takes the handle for granted
Font_new_from_buffer_unwrap(buffer, style, backend) ==
    LET handle == handle_new_from_buffer(buffer, style)
    IN  IF handle.tag = "Err" THEN Abort
        ELSE Ok(Font_new_from_adopted_handle(get_ref(handle.val), style, backend))

\* Font::new_from_buffer
Font_new_from_buffer(buffer, style, backend) ==
    LET handle == handle_new_from_buffer(buffer, style)
    IN  IF handle.tag = "Err" THEN Err
        ELSE LET metrics == handle_get_metrics(get_ref(handle.val))
             IN  Ok([handle     |-> get_ref(handle.val),
                     azure_font |-> None,
                     shaper     |-> None,
                     style      |-> style,
                     metrics    |-> metrics,
                     backend    |-> backend,
                     shape_cache |-> HashCache_new(ShapeTexts),
                     glyph_advance_cache |-> HashCache_new(GlyphIds)])

\* Rc::new(RefCell::new(font)): the Font with the counts of what it called
RcRefCell_new(F) == [font |-> F, calls |-> NoCalls]

\* the Fonts a font context can hand to a group
NewFonts ==
    { RcRefCell_new(get_ref(Font_new_from_buffer(b, s, k).val)) :
        b \in { x \in Buffers : Font_new_from_buffer(x, UsedStyle, "SkiaBackend").tag = "Ok" },
        s \in Styles, k \in Backends }

\* a group holds at most this many Fonts
MaxGroupFonts == 2
FontVecs == UNION { [1..n -> NewFonts] : n \in 0..MaxGroupFonts }
FamilyLists == { <<"serif">> }
GroupTexts == { <<"a", ".", " ">>, <<"a">> }

\* FontGroup::new
FontGroup_new(families, style, fonts) ==
    [families |-> families, style |-> style, fonts |-> fonts]

RECURSIVE shape_slices(_, _, _, _, _)
\* TextRun::new, slice by slice: each slice of the text shaped by the font
shape_slices(F, C, slices, k, glyphs) ==
    IF k > Len(slices) THEN [font |-> F, calls |-> C, glyphs |-> glyphs]
    ELSE LET r == shape_text(F, C, slices[k].text, slices[k].is_whitespace)
         IN  shape_slices(r.font, r.calls, slices, k + 1,
                 Append(glyphs, [range |-> slices[k].range,
                                 glyph_store |-> r.ret.data]))

\* TextRun::new(font, text, decoration)
TextRun_new(F, C, text, decoration) ==
    LET r == shape_slices(F, C, break_slices(text, 1), 1, <<>>)
    IN  [font |-> r.font, calls |-> r.calls,
         run  |-> [text |-> text, glyphs |-> r.glyphs]]

\* what create_textrun does: the group after it, whether it aborted, the
\* run it returned, and which of the fonts it borrowed (0: none)
textrun_result(G, aborted, run, borrowed) ==
    [group |-> G, aborted |-> aborted, run |-> run, borrowed |-> borrowed]

\* shapes with the last font of the group
create_textrun_last(G, text, decoration) ==
    IF ~(Len(G.fonts) > 0) THEN textrun_result(G, TRUE, None, 0)
    ELSE LET n == Len(G.fonts)
             r == TextRun_new(G.fonts[n].font, G.fonts[n].calls, text, decoration)
         IN  textrun_result([G EXCEPT !.fonts[n] = [font |-> r.font, calls |-> r.calls]],
                            FALSE, Some(r.run), n)

\* returns a run without glyphs when the group has no font
create_textrun_unasserted(G, text, decoration) ==
    IF ~(Len(G.fonts) > 0)
    THEN textrun_result(G, FALSE, Some([text |-> text, glyphs |-> <<>>]), 0)
    ELSE LET r == TextRun_new(G.fonts[1].font, G.fonts[1].calls, text, decoration)
         IN  textrun_result([G EXCEPT !.fonts[1] = [font |-> r.font, calls |-> r.calls]],
                            FALSE, Some(r.run), 1)

\* FontGroup::create_textrun
create_textrun(G, text, decoration) ==
    IF ~(Len(G.fonts) > 0) THEN textrun_result(G, TRUE, None, 0)
    ELSE LET r == TextRun_new(G.fonts[1].font, G.fonts[1].calls, text, decoration)
         IN  textrun_result([G EXCEPT !.fonts[1] = [font |-> r.font, calls |-> r.calls]],
                            FALSE, Some(r.run), 1)

\* a failed assertion ends the task
Aborted == last.op = "create_textrun" /\ last.ret.aborted

NewFromBuffer(buffer, style, backend) ==
    /\ ~Aborted
    /\ last' = [op |-> "new_from_buffer",
                key |-> [buffer |-> buffer, style |-> style, backend |-> backend],
                ret |-> Font_new_from_buffer(buffer, style, backend),
                hit |-> FALSE, fills |-> <<>>]
    /\ UNCHANGED <<font, calls, first, rctx, borrow, task, group, table, pass>>

FontGroupNew(families, style, fonts) ==
    /\ ~Aborted
    /\ group' = Some(FontGroup_new(families, style, fonts))
    /\ last' = [op |-> "FontGroup_new", key |-> [families |-> families, style |-> style],
                ret |-> <<>>, hit |-> FALSE, fills |-> <<>>]
    /\ UNCHANGED <<font, calls, first, rctx, borrow, task, table, pass>>

GroupCreateTextrun(text, decoration) ==
    /\ ~Aborted
    /\ is_some(group)
    /\ LET r == create_textrun(get_ref(group), text, decoration)
       IN  /\ group' = Some(r.group)
           /\ last' = [op |-> "create_textrun", key |-> [text |-> text],
                       ret |-> [aborted |-> r.aborted, run |-> r.run,
                                borrowed |-> r.borrowed],
                       hit |-> FALSE, fills |-> <<>>]
    /\ UNCHANGED <<font, calls, first, rctx, borrow, task, table, pass>>

\* the font context of another task: the face the selector names, adopted
\* with the descriptor's style into a new Font
FontContext_get_font_by_descriptor(desc, backend) ==
    IF desc.selector.variant = "SelectorPlatformIdentifier"
       /\ \E h \in Faces : handle_face_identifier(h) = desc.selector.id
    THEN Ok(Font_new_from_adopted_handle(
                CHOOSE h \in Faces : handle_face_identifier(h) = desc.selector.id,
                desc.style, "SkiaBackend"))
    ELSE Err

\* the descriptor of the i-th font of the group crosses to another task and
\* is resolved there
ResolveDescriptor(i) ==
    /\ ~Aborted
    /\ is_some(group)
    /\ i \in 1..Len(get_ref(group).fonts)
    /\ LET desc == get_descriptor(get_ref(group).fonts[i].font)
       IN  last' = [op |-> "resolve", key |-> [index |-> i, descriptor |-> desc],
                    ret |-> FontContext_get_font_by_descriptor(desc, "SkiaBackend"),
                    hit |-> FALSE, fills |-> <<>>]
    /\ UNCHANGED <<font, calls, first, rctx, borrow, task, group, table, pass>>

NextGroup ==
    \/ \E buffer \in Buffers, style \in Styles, backend \in Backends :
          NewFromBuffer(buffer, style, backend)
    \/ \E families \in FamilyLists, style \in Styles, fonts \in FontVecs :
          FontGroupNew(families, style, fonts)
    \/ \E text \in GroupTexts : GroupCreateTextrun(text, "none")
    \/ \E i \in 1..MaxGroupFonts + 1 : ResolveDescriptor(i)

SpecGroup == Init /\ [][NextGroup]_vars

----------------------------------------------------------------------------

(* layout::table: a TableFlow and its children *)

MaxCols == 2
MaxKids == 3

FixedLayout == "FixedLayout"
AutoLayout == "AutoLayout"
TableLayouts == {FixedLayout, AutoLayout}

\* Au division: the quotient of the two i32 values, truncated towards zero
Au_div(a, b) == IF a >= 0 THEN a \div b ELSE -((-a) \div b)

\* Au::scale_by with the ratio content_width / total_column_width: the product
\* as f64, cast back to i32 (for the widths below the f64 product is exact)
scale_by(w, content_width, total_column_width) ==
    (w * content_width) \div total_column_width

\* a table cell as its row sees it: specified width (0: none), minimum and
\* preferred intrinsic width
Cells == { [width |-> 0,   min |-> 60,  pref |-> 180],
           [width |-> 120, min |-> 120, pref |-> 120] }

\* a table row after its own bubble_widths: one entry per cell in each vector
TableRow_of(class, cells) ==
    [class |-> class,
     col_widths      |-> [i \in 1..Len(cells) |-> cells[i].width],
     col_min_widths  |-> [i \in 1..Len(cells) |-> cells[i].min],
     col_pref_widths |-> [i \in 1..Len(cells) |-> cells[i].pref]]

CellSeqs == UNION { [1..n -> Cells] : n \in 1..MaxCols }
Rows == { TableRow_of("TableRow", cells) : cells \in CellSeqs }
RowGroups == { TableRow_of("TableRowGroup", cells) : cells \in [1..1 -> Cells] }

\* a column group after its own bubble_widths: one width per column, 0 when
\* the column specifies none
ColGroups == { [class |-> "TableColGroup", widths |-> <<w>>] : w \in {0, 60} }

Kids == ColGroups \cup RowGroups \cup Rows

is_table_colgroup(kid) == kid.class = "TableColGroup"
is_table_rowgroup(kid) == kid.class = "TableRowGroup"
is_table_row(kid) == kid.class = "TableRow"

\* the content widths compute_used_width can leave in the table's fragment
ContentWidths == {60, 180, 300}

\* TableFlow::from_node_and_fragment: empty vectors, the style's table-layout
TableFlow_from_node_and_fragment(table_layout) ==
    [col_widths |-> <<>>, col_min_widths |-> <<>>, col_pref_widths |-> <<>>,
     table_layout |-> table_layout,
     intrinsic_widths |-> [minimum_width |-> 0, preferred_width |-> 0]]

RECURSIVE update_col_widths_loop(_, _, _, _)
\* the loop over self_widths, the kid's iterator advancing with it
update_col_widths_loop(self_widths, kid_widths, i, sum_widths) ==
    IF i > Len(self_widths) THEN [self_widths |-> self_widths, ret |-> sum_widths]
    ELSE LET self_width == IF i <= Len(kid_widths) /\ self_widths[i] < kid_widths[i]
                           THEN kid_widths[i]
                           ELSE self_widths[i]
         IN  update_col_widths_loop([self_widths EXCEPT ![i] = self_width],
                                    kid_widths, i + 1, sum_widths + self_width)

\* an update that takes over no width of the kid
update_col_widths_unraised(self_widths, kid_widths) ==
    update_col_widths_loop(self_widths, <<>>, 1, 0)

\* TableFlow::update_col_widths: raise each entry of self_widths to the kid's
\* entry at the same index, return the sum of self_widths afterwards
update_col_widths(self_widths, kid_widths) ==
    update_col_widths_loop(self_widths, kid_widths, 1, 0)

\* bubble_widths, a column group: its widths are appended to col_widths, and
\* col_min_widths and col_pref_widths become copies of col_widths
bubble_widths_colgroup_unshared(T, kid) ==
    [T EXCEPT !.col_widths = T.col_widths \o kid.widths]

\* bubble_widths, lines 175-178
bubble_widths_colgroup(T, kid) ==
    LET col_widths == T.col_widths \o kid.widths
    IN  [T EXCEPT !.col_widths = col_widths,
                  !.col_min_widths = col_widths,
                  !.col_pref_widths = col_widths]

\* for i in range(num_cols, num_child_cols): the kid's entries from num_cols on
pushed(kid_widths, num_cols) ==
    IF num_cols < Len(kid_widths) THEN SubSeq(kid_widths, num_cols + 1, Len(kid_widths))
    ELSE <<>>

\* bubble_widths, FixedLayout, a row or row group: the first row fills the
\* columns that are still 0; every row appends the columns it has beyond the
\* table's
bubble_widths_fixed(T, did_first_row, kid) ==
    LET kid_col_widths == kid.col_widths
        filled == IF ~did_first_row
                  THEN [i \in 1..Len(T.col_widths) |->
                           IF i <= Len(kid_col_widths) /\ T.col_widths[i] = 0
                           THEN kid_col_widths[i]
                           ELSE T.col_widths[i]]
                  ELSE T.col_widths
    IN  [T EXCEPT !.col_widths = filled \o pushed(kid_col_widths, Len(filled))]

RECURSIVE push_new_cols(_, _, _, _)
\* the loop of lines 218-226: one push to each of the three vectors per new
\* column, min_width and pref_width growing by what is pushed
push_new_cols(T, kid, i, widths) ==
    IF i > Len(kid.col_min_widths) THEN [table |-> T, widths |-> widths]
    ELSE LET new_kid_min  == kid.col_min_widths[i]
             new_kid_pref == kid.col_pref_widths[i]
         IN  push_new_cols([T EXCEPT !.col_widths = Append(@, 0),
                                     !.col_min_widths = Append(@, new_kid_min),
                                     !.col_pref_widths = Append(@, new_kid_pref)],
                           kid, i + 1,
                           [min_width  |-> widths.min_width + new_kid_min,
                            pref_width |-> widths.pref_width + new_kid_pref])

\* bubble_widths, AutoLayout, a row or row group
bubble_widths_auto(T, kid) ==
    LET mins  == update_col_widths(T.col_min_widths, kid.col_min_widths)
        prefs == update_col_widths(T.col_pref_widths, kid.col_pref_widths)
        num_cols == Len(mins.self_widths)
    IN  push_new_cols([T EXCEPT !.col_min_widths = mins.self_widths,
                                !.col_pref_widths = prefs.self_widths],
                      kid, num_cols + 1,
                      [min_width |-> mins.ret, pref_width |-> prefs.ret])

\* bubble_widths, one turn of the loop over the children: P holds the locals
\* min_width, pref_width and did_first_row
bubble_widths_kid(T, P, kid) ==
    IF is_table_colgroup(kid)
    THEN [table |-> bubble_widths_colgroup(T, kid), pass |-> P]
    ELSE IF is_table_rowgroup(kid) \/ is_table_row(kid)
    THEN IF T.table_layout = FixedLayout
         THEN [table |-> bubble_widths_fixed(T, P.did_first_row, kid),
               pass  |-> [P EXCEPT !.did_first_row = TRUE]]
         ELSE LET r == bubble_widths_auto(T, kid)
              IN  [table |-> r.table,
                   pass  |-> [P EXCEPT !.min_width = r.widths.min_width,
                                       !.pref_width = r.widths.pref_width]]
    ELSE [table |-> T, pass |-> P]

\* bubble_widths, after the loop: the intrinsic widths are the locals
bubble_widths_store(T, P) ==
    [T EXCEPT !.intrinsic_widths =
        [minimum_width |-> P.min_width,
         preferred_width |-> Max2(P.min_width, P.pref_width)]]

RECURSIVE count_widths(_, _, _)
\* assign_widths, lines 244-252: the columns without a width are counted, the
\* widths of the others added up
count_widths(col_widths, i, acc) ==
    IF i > Len(col_widths) THEN acc
    ELSE IF col_widths[i] = 0
    THEN count_widths(col_widths, i + 1,
             [acc EXCEPT !.num_unspecified_widths = @ + 1])
    ELSE count_widths(col_widths, i + 1,
             [acc EXCEPT !.total_column_width = @ + col_widths[i]])

\* assign_widths, lines 244-280: in fixed layout, columns that all have a
\* width are scaled up to the content width, and columns without one share
\* what the others leave
assign_widths(T, content_width) ==
    LET acc == count_widths(T.col_widths, 1,
                   [num_unspecified_widths |-> 0, total_column_width |-> 0])
        num_unspecified_widths == acc.num_unspecified_widths
        total_column_width == acc.total_column_width
        extra_column_width ==
            Au_div(content_width - total_column_width, num_unspecified_widths)
    IN  IF T.table_layout = FixedLayout
        THEN IF total_column_width < content_width /\ num_unspecified_widths = 0
             THEN [T EXCEPT !.col_widths =
                      [i \in 1..Len(@) |->
                          scale_by(@[i], content_width, total_column_width)]]
             ELSE IF num_unspecified_widths # 0
             THEN [T EXCEPT !.col_widths =
                      [i \in 1..Len(@) |->
                          IF @[i] = 0 THEN extra_column_width ELSE @[i]]]
             ELSE T
        ELSE T

\* flow construction makes the table
TableFlowNew(table_layout) ==
    /\ is_none(table)
    /\ table' = Some(TableFlow_from_node_and_fragment(table_layout))
    /\ pass' = [NoPass EXCEPT !.pc = "bubble_widths"]
    /\ UNCHANGED <<font, calls, first, last, rctx, borrow, task, group>>

\* bubble_widths takes the next child from child_iter
BubbleWidthsKid(kid) ==
    /\ pass.pc = "bubble_widths"
    /\ Len(pass.seen) < MaxKids
    /\ LET r == bubble_widths_kid(get_ref(table), pass, kid)
       IN  /\ table' = Some(r.table)
           /\ pass' = [r.pass EXCEPT !.seen = Append(@, kid),
                                     !.before = get_ref(table).col_widths]
    /\ UNCHANGED <<font, calls, first, last, rctx, borrow, task, group>>

\* child_iter is exhausted: bubble_widths stores the intrinsic widths
BubbleWidthsStore ==
    /\ pass.pc = "bubble_widths"
    /\ table' = Some(bubble_widths_store(get_ref(table), pass))
    /\ pass' = [pass EXCEPT !.pc = "assign_widths"]
    /\ UNCHANGED <<font, calls, first, last, rctx, borrow, task, group>>

\* assign_widths, the fragment's content width being content_width; the
\* column widths go on to the children
AssignWidths(content_width) ==
    /\ pass.pc = "assign_widths"
    /\ LET T == assign_widths(get_ref(table), content_width)
       IN  /\ table' = Some(T)
           /\ pass' = [pass EXCEPT !.pc = "done",
                                   !.before = get_ref(table).col_widths,
                                   !.content_width = content_width,
                                   !.propagated = Some(T.col_widths)]
    /\ UNCHANGED <<font, calls, first, last, rctx, borrow, task, group>>

NextTable ==
    \/ \E table_layout \in TableLayouts : TableFlowNew(table_layout)
    \/ \E kid \in Kids : BubbleWidthsKid(kid)
    \/ BubbleWidthsStore
    \/ \E content_width \in ContentWidths : AssignWidths(content_width)

SpecTable == Init /\ [][NextTable]_vars

----------------------------------------------------------------------------

(* Properties *)

\* C1: every shape_text call returns the glyph store (same reference, same
\* contents) that the first call with that text returned, and the shaper has
\* been invoked exactly once for every text shaped so far.
C1_ShapeCacheHit ==
    /\ \A t \in ShapeTexts :
          calls.shaper_shape_text[t] = IF is_some(first.store[t]) THEN 1 ELSE 0
    /\ last.op = "shape_text" =>
          /\ is_some(first.store[last.key.text])
          /\ last.ret.ptr  = get_ref(first.store[last.key.text]).ptr
          /\ last.ret.data = get_ref(first.store[last.key.text]).data

\* a call answered from the cache, for a text shaped before with the other flag
C1_Witness ==
    /\ last.op = "shape_text"
    /\ last.hit
    /\ last.key.is_whitespace # last.ret.data.is_whitespace

\* C2: whatever the interleaving of create_textrun requests, at most one of
\* them is inside shape_text on the Font, and at most one glyph store is ever
\* made for a text.
C2_ExclusiveShape ==
    /\ Cardinality({ r \in Requests : InShapeText(r) }) <= 1
    /\ \A r \in Requests : InShapeText(r) => borrow = r
    /\ \A t \in ShapeTexts : calls.shaper_shape_text[t] <= 1
    /\ \A r \in Requests :
          is_some(task[r].glyphs) => is_none(font.shape_cache[task[r].text])

\* a second request for the same text arrived while the first had shaped
\* and not yet inserted
C2_Witness ==
    \E r1, r2 \in Requests :
       /\ task[r1].pc = "insert"
       /\ task[r2].pc = "failed"
       /\ task[r1].text = task[r2].text

\* C3: glyph_h_advance answers a glyph id always with the same value: the
\* handle's advance where the handle has one, 10 where it has none; and the
\* handle is asked at most once per glyph id.
C3_StableAdvance ==
    /\ \A g \in GlyphIds : calls.handle_glyph_h_advance[g] <= 1
    /\ last.op = "glyph_h_advance" =>
          LET g == last.key.glyph
              reported == handle_glyph_h_advance(Handle, g)
          IN  /\ last.ret = get_ref(first.advance[g])
              /\ last.ret = IF is_some(reported) THEN get_ref(reported) ELSE 10

\* a repeated call for the glyph the handle has no advance for
C3_Witness ==
    /\ last.op = "glyph_h_advance"
    /\ last.hit
    /\ is_none(handle_glyph_h_advance(Handle, last.key.glyph))

\* C4: no operation removes or replaces an entry of the shape cache or of
\* the glyph advance cache, or changes the Font's style, metrics or handle.
C4_CachesOnlyGrow ==
    [][ /\ \A t \in ShapeTexts :
              is_some(font.shape_cache[t]) => font'.shape_cache[t] = font.shape_cache[t]
        /\ \A g \in GlyphIds :
              is_some(font.glyph_advance_cache[g]) =>
                  font'.glyph_advance_cache[g] = font.glyph_advance_cache[g]
        /\ font'.style = font.style
        /\ font'.metrics = font.metrics
        /\ font'.handle = font.handle ]_vars

\* both caches full, the azure font built, and one more shape_text call made
C4_Witness ==
    /\ \A t \in ShapeTexts : is_some(font.shape_cache[t])
    /\ \A g \in AdvanceGlyphs : is_some(font.glyph_advance_cache[g])
    /\ is_some(font.azure_font)
    /\ last.op = "shape_text"
    /\ ~last.key.is_whitespace /\ last.ret.data.is_whitespace

\* C5: the azure font is absent after construction, is built exactly once,
\* by the first draw, and every later draw uses that same one.
C5_AzureFontOnce ==
    /\ calls.create_azure_font = IF is_some(font.azure_font) THEN 1 ELSE 0
    /\ is_some(font.azure_font) => get_ref(font.azure_font).id = 1
    /\ last.op = "new" => is_none(font.azure_font)
    /\ last.op = "draw_text_into_context" =>
          /\ is_some(font.azure_font)
          /\ \A k \in 1..Len(last.fills) : last.fills[k].font = get_ref(font.azure_font)

\* a draw that found the azure font built and filled glyphs with it
C5_Witness ==
    /\ last.op = "draw_text_into_context"
    /\ last.hit
    /\ Len(last.fills) = 1
    /\ rctx.fill_calls = 2

\* C6: Shaper::new is called exactly once, by the first shape_text call;
\* later calls leave the stored shaper as it is.
C6_ShaperOnce ==
    /\ calls.Shaper_new = IF is_some(font.shaper) THEN 1 ELSE 0
    /\ is_some(font.shaper) => get_ref(font.shaper).id = 1
    /\ last.op = "shape_text" => is_some(font.shaper)
    /\ (\E t \in ShapeTexts : is_some(font.shape_cache[t])) => is_some(font.shaper)

\* shape_text called again, for a second text, after the shaper was built
C6_Witness ==
    /\ last.op = "shape_text"
    /\ ~last.hit
    /\ Cardinality({ t \in ShapeTexts : is_some(font.shape_cache[t]) }) = 2

\* C7: a new Font has neither a shaper nor an azure font; shape_text never
\* builds the azure font and draw_text_into_context never builds the shaper.
C7_IndependentSubstates ==
    /\ is_none(font.shaper) /\ is_none(font.azure_font)
    /\ [][ /\ last'.op = "shape_text" => font'.azure_font = font.azure_font
           /\ last'.op = "draw_text_into_context" => font'.shaper = font.shaper ]_vars

\* drawn but never shaped
C7_Witness ==
    /\ is_none(font.shaper)
    /\ is_some(font.azure_font)
    /\ last.op = "draw_text_into_context"
    /\ last.key.baseline_origin.x = 40

\* the other three combinations of (shaper, azure font)
C7_NeitherBuilt == is_none(font.shaper) /\ is_none(font.azure_font)
C7_ShapedOnly == is_some(font.shaper) /\ is_none(font.azure_font)
C7_BothBuilt == is_some(font.shaper) /\ is_some(font.azure_font)

\* C8: a draw over a zero-length range, or any draw whose glyph buffer comes
\* out empty, issues no fill call and leaves the draw target as it was.
C8_EmptyDrawIsNoOp ==
    [][ (/\ last'.op = "draw_text_into_context"
         /\ \/ last'.key.range.length = 0
            \/ Len(last'.ret.azglyphs) = 0)
        => (Len(last'.fills) = 0 /\ rctx' = rctx) ]_vars

\* a zero-length draw in the middle of a run, on a target already drawn to
C8_Witness ==
    /\ last.op = "draw_text_into_context"
    /\ last.key.range = Range(1, 0)
    /\ rctx.fill_calls = 1

\* C9: a draw whose glyph buffer is not empty issues exactly one fill call,
\* carrying the whole buffer: one glyph per character of the range, in run
\* order, with alpha 1.
C9_OneBatchedFill ==
    [][ (/\ last'.op = "draw_text_into_context"
         /\ Len(last'.ret.azglyphs) > 0)
        => /\ Len(last'.fills) = 1
           /\ rctx'.fill_calls = rctx.fill_calls + 1
           /\ LET fill  == last'.fills[1]
                  range == last'.key.range
                  text  == last'.key.run.text
              IN  /\ fill.glyphbuf.mGlyphs = last'.ret.azglyphs
                  /\ fill.glyphbuf.mNumGlyphs = range.length
                  /\ Len(fill.glyphbuf.mGlyphs) = range.length
                  /\ \A i \in 1..range.length :
                        fill.glyphbuf.mGlyphs[i].mIndex = ShapedGlyph(text[range.begin + i]).id
                  /\ fill.options.mAlpha = 1 ]_vars

\* a draw of the last two characters, which lie in two slices
C9_Witness ==
    /\ last.op = "draw_text_into_context"
    /\ last.key.range = Range(1, 2)
    /\ Len(last.fills) = 1
    /\ last.fills[1].glyphbuf.mNumGlyphs = 2

\* the cut points of the partitions of a range into three contiguous parts
\* (parts may be empty, so partitions into one and two parts are among them)
Cuts(range) ==
    { c \in (range.begin..range_end(range)) \X (range.begin..range_end(range)) :
        c[1] <= c[2] }

\* C10: the advance width measure_text (measure_text_for_slice) returns for a
\* range is the signed sum of the advance widths it returns for the parts of
\* any partition of the range into contiguous sub-ranges.
C10_MeasureAdditive ==
    /\ last.op = "measure_text" =>
          \A c \in Cuts(last.key.range) :
             LET run == last.key.run
                 b == last.key.range.begin
                 e == range_end(last.key.range)
             IN  last.ret.advance_width =
                     measure_text(font, run, Range(b, c[1] - b)).advance_width
                   + measure_text(font, run, Range(c[1], c[2] - c[1])).advance_width
                   + measure_text(font, run, Range(c[2], e - c[2])).advance_width
    /\ last.op = "measure_text_for_slice" =>
          \A c \in Cuts(last.key.range) :
             LET glyphs == last.key.glyphs
                 b == last.key.range.begin
                 e == range_end(last.key.range)
             IN  last.ret.advance_width =
                     measure_text_for_slice(font, glyphs, Range(b, c[1] - b)).advance_width
                   + measure_text_for_slice(font, glyphs, Range(c[1], c[2] - c[1])).advance_width
                   + measure_text_for_slice(font, glyphs, Range(c[2], e - c[2])).advance_width

\* the whole of a three-glyph run measured, one of its advances negative
C10_Witness ==
    /\ last.op = "measure_text"
    /\ last.key.range = Range(0, 3)
    /\ last.ret.advance_width = 130
    /\ measure_text(font, last.key.run, Range(1, 1)).advance_width < 0


RECURSIVE SeqSum(_)
\* the sum of a sequence of integers
SeqSum(s) == IF Len(s) = 0 THEN 0 ELSE s[1] + SeqSum(Tail(s))

\* what RunMetrics has to be for a total advance, given the Font's metrics
ExpectedMetrics(advance, ascent, descent) ==
    [advance_width |-> advance, ascent |-> ascent, descent |-> descent,
     bounding_box |-> [origin |-> [x |-> 0, y |-> 0 - ascent],
                       size |-> [width |-> advance, height |-> ascent + descent]]]

\* a glyph store of three glyphs with advances 5, -1, 6
ScenarioGlyphs ==
    [entries |-> [i \in 1..3 |-> [id |-> i, advance |-> <<5, -1, 6>>[i], offset |-> None]],
     is_whitespace |-> FALSE]

\* C11: measure_text and measure_text_for_slice return the signed sum of the
\* covered glyphs' advances as advance_width, the Font's ascent and descent,
\* and the box with origin (0, -ascent) and size (advance_width, ascent +
\* descent); with ascent 11, descent 3 and advances 5, -1, 6 that is advance
\* 10, origin (0, -11), size (10, 14).
C11_RunMetrics ==
    /\ last.op = "measure_text" =>
          LET range == last.key.range
              text  == last.key.run.text
              total == SeqSum([i \in 1..range.length |->
                                  ShapedGlyph(text[range.begin + i]).advance])
          IN  last.ret = ExpectedMetrics(total, font.metrics.ascent, font.metrics.descent)
    /\ last.op = "measure_text_for_slice" =>
          LET range == last.key.range
              total == SeqSum([i \in 1..range.length |->
                                  last.key.glyphs.entries[range.begin + i].advance])
          IN  last.ret = ExpectedMetrics(total, font.metrics.ascent, font.metrics.descent)
    /\ (font.metrics.ascent = 11 /\ font.metrics.descent = 3) =>
          measure_text_for_slice(font, ScenarioGlyphs, Range(0, 3)) =
              [advance_width |-> 10, ascent |-> 11, descent |-> 3,
               bounding_box |-> [origin |-> [x |-> 0, y |-> -11],
                                 size |-> [width |-> 10, height |-> 14]]]

\* a two-glyph slice measured whole, its second advance negative
C11_Witness ==
    /\ last.op = "measure_text_for_slice"
    /\ last.key.range = Range(0, 2)
    /\ last.ret.advance_width = 30
    /\ last.ret.bounding_box.origin.y = -11


\* a Font as it is right after construction
IsPristine(F) ==
    /\ is_none(F.shaper)
    /\ is_none(F.azure_font)
    /\ \A t \in ShapeTexts : is_none(F.shape_cache[t])
    /\ \A g \in GlyphIds : is_none(F.glyph_advance_cache[g])

\* C12: create_textrun shapes through the first font of the group only: it
\* leaves every other font of the group as it was, and the glyph stores of
\* the run it returns are those of the first font's shape cache.
C12_FirstFontOnly ==
    [][ (last'.op = "create_textrun" /\ is_some(group)) =>
          LET G  == get_ref(group)
              G2 == get_ref(group')
          IN  /\ Len(G2.fonts) = Len(G.fonts)
              /\ \A i \in 2..Len(G.fonts) : G2.fonts[i] = G.fonts[i]
              /\ Len(G.fonts) > 0 =>
                    /\ last'.ret.borrowed = 1
                    /\ is_some(last'.ret.run)
                    /\ LET run == get_ref(last'.ret.run)
                           sl  == break_slices(last'.key.text, 1)
                       IN  /\ Len(run.glyphs) = Len(sl)
                           /\ \A k \in 1..Len(sl) :
                                 /\ is_some(G2.fonts[1].font.shape_cache[sl[k].text])
                                 /\ run.glyphs[k].glyph_store =
                                       get_ref(G2.fonts[1].font.shape_cache[sl[k].text]).data ]_vars

\* a text with "." shaped in a group whose first font has no glyph for "."
\* and whose second font has one
C12_Witness ==
    /\ last.op = "create_textrun"
    /\ is_some(group)
    /\ Len(get_ref(group).fonts) = 2
    /\ last.key.text = <<"a", ".", " ">>
    /\ is_none(handle_glyph_index(get_ref(group).fonts[1].font.handle, "."))
    /\ is_some(handle_glyph_index(get_ref(group).fonts[2].font.handle, "."))
    /\ is_some(get_ref(group).fonts[1].font.shape_cache[<<"a", ".">>])
    /\ IsPristine(get_ref(group).fonts[2].font)

\* C13: create_textrun on a group without fonts aborts: it returns no run,
\* borrows no font and shapes nothing.
C13_EmptyGroupAborts ==
    [][ (/\ last'.op = "create_textrun"
         /\ is_some(group)
         /\ Len(get_ref(group).fonts) = 0)
        => /\ last'.ret.aborted
           /\ is_none(last'.ret.run)
           /\ last'.ret.borrowed = 0
           /\ group' = group ]_vars

\* create_textrun was called on a group without fonts
C13_Witness ==
    /\ last.op = "create_textrun"
    /\ last.ret.aborted
    /\ is_some(group)
    /\ Len(get_ref(group).fonts) = 0

\* C14: every FontGroup that exists has at least one Font.
C14_GroupNeverEmpty ==
    is_some(group) => Len(get_ref(group).fonts) > 0

\* C15: new_from_buffer returns Err, and neither a Font nor an abort, when
\* the handle cannot be made from the buffer; otherwise it returns a Font
\* with that handle, the handle's metrics, the given style, no shaper, no
\* azure font and empty caches.
C15_NewFromBuffer ==
    last.op = "new_from_buffer" =>
       LET handle == handle_new_from_buffer(last.key.buffer, last.key.style)
       IN  /\ handle.tag = "Err" => (last.ret.tag = "Err" /\ is_none(last.ret.val))
           /\ handle.tag = "Ok" =>
                 /\ last.ret.tag = "Ok"
                 /\ is_some(last.ret.val)
                 /\ LET F == get_ref(last.ret.val)
                    IN  /\ F.handle = get_ref(handle.val)
                        /\ F.metrics = handle_get_metrics(get_ref(handle.val))
                        /\ F.style = last.key.style
                        /\ F.backend = last.key.backend
                        /\ IsPristine(F)

\* a buffer that holds no font was handed in
C15_Witness ==
    /\ last.op = "new_from_buffer"
    /\ last.key.buffer = "garbage"
    /\ last.ret.tag = "Err"

\* C16: get_descriptor changes no field of the Font and returns, in every
\* state of the Font, the Font's style with the selector
\* SelectorPlatformIdentifier(handle.face_identifier()).
C16_DescriptorPure ==
    [][ last'.op = "get_descriptor" =>
          /\ font' = font
          /\ calls' = calls
          /\ last'.ret = [style |-> font.style,
                          selector |-> [variant |-> "SelectorPlatformIdentifier",
                                        id |-> handle_face_identifier(font.handle)]]
          /\ last'.ret = [style |-> UsedStyle,
                          selector |-> [variant |-> "SelectorPlatformIdentifier",
                                        id |-> "face-0"]] ]_vars

\* the descriptor taken from a Font that has shaped, measured advances and
\* drawn
C16_Witness ==
    /\ last.op = "get_descriptor"
    /\ is_some(font.shaper)
    /\ is_some(font.azure_font)
    /\ \E t \in ShapeTexts : is_some(font.shape_cache[t])
    /\ \E g \in GlyphIds : is_some(font.glyph_advance_cache[g])

\* C17: the Font another font context makes from get_descriptor(F) has F's
\* metrics and style and the same descriptor, and neither shaper nor azure
\* font nor cache entries, whatever F has cached.
C17_DescriptorRoundTrip ==
    last.op = "resolve" =>
       LET F == get_ref(group).fonts[last.key.index].font
       IN  /\ last.key.descriptor = get_descriptor(F)
           /\ last.ret.tag = "Ok"
           /\ LET R == get_ref(last.ret.val)
              IN  /\ R.metrics = F.metrics
                  /\ R.style = F.style
                  /\ R.handle = F.handle
                  /\ get_descriptor(R) = get_descriptor(F)
                  /\ IsPristine(R)

\* the descriptor of a bold face-1 Font that has shaped text was resolved
C17_Witness ==
    /\ last.op = "resolve"
    /\ last.ret.tag = "Ok"
    /\ LET F == get_ref(group).fonts[last.key.index].font
       IN  /\ ~IsPristine(F)
           /\ F.style = BoldStyle
           /\ F.handle = HandleB
           /\ get_ref(last.ret.val) # F


\* the offset of a shaped glyph, zero where it has none
OffsetOf(glyph) ==
    IF is_some(glyph.offset) THEN get_ref(glyph.offset) ELSE [x |-> 0, y |-> 0]

\* C18: the k-th glyph of a draw's buffer sits at x = round(baseline x + the
\* advances of the glyphs before it + its own x offset) and y = round(baseline
\* y + its own y offset); offsets do not move the running origin, whose y
\* stays the baseline's.
C18_GlyphPositions ==
    last.op = "draw_text_into_context" =>
       LET range == last.key.range
           text  == last.key.run.text
           o     == last.key.baseline_origin
           buf   == last.ret.azglyphs
           g(i)  == ShapedGlyph(text[range.begin + i])
       IN  /\ Len(buf) = range.length
           /\ \A k \in 1..Len(buf) :
                 /\ buf[k].mPosition.x =
                       to_nearest_px(o.x + SeqSum([j \in 1..(k - 1) |-> g(j).advance])
                                         + OffsetOf(g(k)).x)
                 /\ buf[k].mPosition.y = to_nearest_px(o.y + OffsetOf(g(k)).y)
           /\ last.ret.origin.y = o.y
           /\ last.ret.origin.x = o.x + SeqSum([j \in 1..range.length |-> g(j).advance])

\* three glyphs drawn from (40, 100), the second and third with offsets
C18_Witness ==
    /\ last.op = "draw_text_into_context"
    /\ last.key.range = Range(0, 3)
    /\ last.key.baseline_origin = [x |-> 40, y |-> 100]
    /\ last.ret.azglyphs[2].mPosition = [x |-> 2, y |-> 1]
    /\ last.ret.azglyphs[3].mPosition = [x |-> 1, y |-> 2]

\* C19: the glyph store a shape_text call returns has one entry per
\* character of the text and carries the is_whitespace flag of that call.
C19_TaggedAsPassed ==
    last.op = "shape_text" =>
       /\ Len(last.ret.data.entries) = Len(last.key.text)
       /\ last.ret.data.is_whitespace = last.key.is_whitespace

\* C19, amended: the glyph store a shape_text call returns has one entry per
\* character of the text and carries the is_whitespace flag of the first
\* call made with that text, which is the call's own flag when the call
\* missed the cache.
C19_TaggedAsFirst ==
    last.op = "shape_text" =>
       /\ Len(last.ret.data.entries) = Len(last.key.text)
       /\ is_some(first.flag[last.key.text])
       /\ last.ret.data.is_whitespace = get_ref(first.flag[last.key.text])
       /\ ~last.hit => last.ret.data.is_whitespace = last.key.is_whitespace

\* a two-character text shaped as whitespace after it was shaped as text
C19_Witness ==
    /\ last.op = "shape_text"
    /\ last.key.text = <<"a", ".">>
    /\ last.key.is_whitespace
    /\ ~last.ret.data.is_whitespace
    /\ Len(last.ret.data.entries) = 2

\* the number of glyphs measure_text sums for a range of a run
MeasuredGlyphs(run, range) ==
    LET slices == iter_slices_for_range(run, range)
    IN  SeqSum([k \in 1..Len(slices) |->
                   Len(iter_glyphs_for_char_range(slices[k].glyphs, slices[k].slice_range))])

\* C20: a draw moves the running origin horizontally by exactly the advance
\* width measure_text reports for the same run and range, and puts as many
\* glyphs into the buffer as measure_text sums.
C20_DrawAgreesWithMeasure ==
    last.op = "draw_text_into_context" =>
       /\ last.ret.origin.x - last.key.baseline_origin.x =
             measure_text(font, last.key.run, last.key.range).advance_width
       /\ Len(last.ret.azglyphs) = MeasuredGlyphs(last.key.run, last.key.range)

\* the one glyph with a negative advance drawn: the origin moved left
C20_Witness ==
    /\ last.op = "draw_text_into_context"
    /\ last.key.range = Range(1, 1)
    /\ last.ret.origin.x - last.key.baseline_origin.x = -20
    /\ Len(last.ret.azglyphs) = 1

\* the children that are rows or row groups
IsRowKid(kid) == is_table_rowgroup(kid) \/ is_table_row(kid)

\* every column group comes before every row
ColGroupsFirst(kids) ==
    \A i, j \in 1..Len(kids) : (i < j /\ IsRowKid(kids[i])) => IsRowKid(kids[j])

RECURSIVE ColGroupWidths(_)
\* the widths of the column groups among kids, in order
ColGroupWidths(kids) ==
    IF Len(kids) = 0 THEN <<>>
    ELSE (IF is_table_colgroup(kids[1]) THEN kids[1].widths ELSE <<>>)
         \o ColGroupWidths(Tail(kids))

MaxOf(S) == CHOOSE m \in S : \A x \in S : x <= m

\* what the column group and the rows say about the minimum width of column i
MinWidthsAt(kids, i) ==
    { ColGroupWidths(kids)[j] : j \in {i} \cap 1..Len(ColGroupWidths(kids)) }
    \cup { kids[k].col_min_widths[i] :
             k \in { k \in 1..Len(kids) :
                       IsRowKid(kids[k]) /\ i <= Len(kids[k].col_min_widths) } }

\* what the column group and the rows say about the preferred width of column i
PrefWidthsAt(kids, i) ==
    { ColGroupWidths(kids)[j] : j \in {i} \cap 1..Len(ColGroupWidths(kids)) }
    \cup { kids[k].col_pref_widths[i] :
             k \in { k \in 1..Len(kids) :
                       IsRowKid(kids[k]) /\ i <= Len(kids[k].col_pref_widths) } }

\* the largest column count among the column group and the rows
ColumnCount(kids) ==
    MaxOf({ Len(ColGroupWidths(kids)) }
          \cup { Len(kids[k].col_min_widths) :
                   k \in { k \in 1..Len(kids) : IsRowKid(kids[k]) } })

InAutoLayout == is_some(table) /\ get_ref(table).table_layout = AutoLayout
InFixedLayout == is_some(table) /\ get_ref(table).table_layout = FixedLayout

\* C21: in automatic layout, once bubble_widths has processed the column
\* groups and after them any rows and row groups, col_min_widths[i] and
\* col_pref_widths[i] are the largest minimum and preferred width that the
\* column group and the rows with a column i give for it, there are as many
\* columns as the largest column count seen, and update_col_widths, whatever
\* row it is given, neither shortens the table's vector nor lowers an entry.
C21_ColumnMaxima ==
    (InAutoLayout /\ ColGroupsFirst(pass.seen)) =>
        LET T == get_ref(table)
        IN  /\ Len(T.col_min_widths) = ColumnCount(pass.seen)
            /\ Len(T.col_pref_widths) = ColumnCount(pass.seen)
            /\ \A i \in 1..Len(T.col_min_widths) :
                  T.col_min_widths[i] = MaxOf(MinWidthsAt(pass.seen, i))
            /\ \A i \in 1..Len(T.col_pref_widths) :
                  T.col_pref_widths[i] = MaxOf(PrefWidthsAt(pass.seen, i))
            /\ \A kid \in Rows \cup RowGroups :
                  LET u == update_col_widths(T.col_min_widths, kid.col_min_widths)
                  IN  /\ Len(u.self_widths) = Len(T.col_min_widths)
                      /\ \A i \in 1..Len(T.col_min_widths) :
                            u.self_widths[i] >= T.col_min_widths[i]

\* a column group of width 60, a one-cell row, then a two-cell row that raises
\* the first column's minimum and adds the second column
C21_Witness ==
    /\ InAutoLayout
    /\ pass.pc = "assign_widths"
    /\ Len(pass.seen) = 3
    /\ is_table_colgroup(pass.seen[1]) /\ pass.seen[1].widths = <<60>>
    /\ is_table_row(pass.seen[2]) /\ Len(pass.seen[2].col_min_widths) = 1
    /\ is_table_row(pass.seen[3]) /\ Len(pass.seen[3].col_min_widths) = 2
    /\ get_ref(table).col_min_widths = <<120, 60>>
    /\ get_ref(table).col_pref_widths = <<180, 180>>

\* bubble_widths has returned
Bubbled == pass.pc \in {"assign_widths", "done"}

\* C22: in automatic layout, after bubble_widths over any sequence of column
\* groups, row groups and rows, the intrinsic minimum_width is the sum of
\* col_min_widths and the intrinsic preferred_width is the larger of the sum
\* of col_min_widths and the sum of col_pref_widths, so that preferred_width
\* is at least minimum_width.
C22_IntrinsicSums ==
    (InAutoLayout /\ Bubbled) =>
        LET T == get_ref(table)
        IN  /\ T.intrinsic_widths.minimum_width = SeqSum(T.col_min_widths)
            /\ T.intrinsic_widths.preferred_width =
                  Max2(SeqSum(T.col_min_widths), SeqSum(T.col_pref_widths))
            /\ T.intrinsic_widths.preferred_width >= T.intrinsic_widths.minimum_width

\* C23: in fixed layout, the column widths that bubble_widths computes come
\* from the column group and the first row only: no row overwrites a column
\* width that is not 0, and a row after the first row leaves col_widths as it
\* was.
C23_FirstRowOnly ==
    [][(InFixedLayout /\ pass.pc = "bubble_widths" /\ pass'.pc = "bubble_widths"
          /\ IsRowKid(pass'.seen[Len(pass'.seen)])) =>
          LET col_widths  == get_ref(table).col_widths
              col_widths2 == get_ref(table').col_widths
          IN  /\ \A i \in 1..Len(col_widths) :
                    col_widths[i] # 0 => col_widths2[i] = col_widths[i]
              /\ pass.did_first_row => col_widths2 = col_widths]_vars

\* assign_widths has returned
Assigned == pass.pc = "done"

\* the columns without a specified width when assign_widths began
Unspecified == { i \in 1..Len(pass.before) : pass.before[i] = 0 }

\* C24: in fixed layout, assign_widths leaves every specified column as it
\* was and gives each unspecified column (content_width - total specified
\* width) / (number of unspecified columns) if there is an unspecified
\* column; if all columns are specified, the widths change only when their
\* total is below content_width; afterwards the widths of a table that has
\* columns add up to content_width, short of it by less than one Au per
\* column, and none is negative.
C24_FixedAssign ==
    (InFixedLayout /\ Assigned /\ Len(pass.before) > 0) =>
        LET col_widths == get_ref(table).col_widths
            total == SeqSum(pass.before)
        IN  /\ Len(col_widths) = Len(pass.before)
            /\ Unspecified # {} =>
                  \A i \in 1..Len(col_widths) :
                     col_widths[i] =
                        IF i \in Unspecified
                        THEN Au_div(pass.content_width - total, Cardinality(Unspecified))
                        ELSE pass.before[i]
            /\ (Unspecified = {} /\ col_widths # pass.before) =>
                  total < pass.content_width
            /\ pass.content_width - SeqSum(col_widths) \in 0..Len(col_widths)
            /\ \A i \in 1..Len(col_widths) : col_widths[i] >= 0

\* C25: in automatic layout, col_widths, col_min_widths and col_pref_widths
\* have one length after every child that bubble_widths processes, whatever
\* the order of column groups, row groups and rows, and assign_widths leaves
\* col_widths as bubble_widths left it and hands that to the children.
C25_VectorsInStep ==
    InAutoLayout =>
        LET T == get_ref(table)
        IN  /\ Len(T.col_min_widths) = Len(T.col_widths)
            /\ Len(T.col_pref_widths) = Len(T.col_widths)
            /\ Assigned => /\ T.col_widths = pass.before
                           /\ pass.propagated = Some(pass.before)

\* a row, a column group after it, and another row with more columns than
\* the table has by then; then assign_widths
C25_Witness ==
    /\ InAutoLayout
    /\ Assigned
    /\ Len(pass.seen) = 3
    /\ IsRowKid(pass.seen[1])
    /\ is_table_colgroup(pass.seen[2]) /\ pass.seen[2].widths = <<60>>
    /\ IsRowKid(pass.seen[3])
    /\ get_ref(table).col_widths = <<0, 60>>
    /\ Len(get_ref(table).col_min_widths) = 2

====
